---------------------------- MODULE Spec2Model ----------------------------
(***************************************************************************)
(* A model of the Inverted Multi-Index engine of src/Indexes/imi_index.py: *)
(* the index handle (train, add, save_index, load_index, build_index,      *)
(* restructure_pickle) and the search pipeline (planner, representative    *)
(* pruner, candidate assembler, batch generator, two-worker batch scorer,  *)
(* global merge).                                                          *)
(*                                                                         *)
(* Distances are the values scipy's cdist returns; they are inputs of the  *)
(* model, drawn from 0..MaxDist, so that ties happen.  numpy's argpartition*)
(* and argsort (kind = quicksort) are not stable: among equal keys the     *)
(* model allows every order.  NaN distances (zero vectors) are left out.   *)
(***************************************************************************)
EXTENDS Integers, Sequences, FiniteSets, TLC

\* The grid side 256 of the source (np.indices((256, 256)), key[0] * 256 +
\* key[1]), which is also the number nlist of centroids per subspace; scaled.
C == 3

\* Number N of vectors in the store; VectorIds are 0 .. N - 1.
NumVectors == 3
\* Largest distance value cdist returns in the model.
MaxDist == 1
\* Arguments of search: top_k in 1 .. MaxTopK, pruning_factor in
\* 1 .. MaxPruning or C * C, max_difference in 0 .. MaxDifference or N,
\* batch_limit in 1 .. MaxBatchLimit or N (no cap: there are at most N batches).
MaxTopK == 2
MaxPruning == 3
MaxDifference == 1
MaxBatchLimit == 2

Min(a, b) == IF a <= b THEN a ELSE b

DistVals == 0 .. MaxDist
Ids == 0 .. (NumVectors - 1)
Centroids == 0 .. (C - 1)
FlatKeys == 0 .. (C * C - 1)

(***************************************************************************)
(* numpy helpers.  An array is a function from its index set to values.    *)
(***************************************************************************)

\* np.argpartition(a, kth)[:kth] over the index set dom: some kth indices whose
\* values are all <= the values of the others; which of several equal values
\* fall in front is unspecified.
ArgPartitionFront(a, dom, kth) ==
  { S \in SUBSET dom :
      /\ Cardinality(S) = kth
      /\ \A x \in S : \A y \in dom \ S : a[x] <= a[y] }

\* np.argpartition raises ValueError for a kth that is not below the length n.
KthOutOfBounds(kth, n) == kth >= n

\* idx[np.argsort(a[idx])] for the index set S: the indices of S in ascending
\* order of a; equal values in any order (quicksort is not stable).
ArgSortSeqs(a, S) ==
  { s \in [1 .. Cardinality(S) -> S] :
      /\ \A p, q \in 1 .. Cardinality(S) : p < q => s[p] # s[q] /\ a[s[p]] <= a[s[q]] }

\* combined_distances.ravel(): D[i, j] = d1[i] + d2[j] at flat index i * C + j.
CombinedFlat(sd1, sd2) == [k \in FlatKeys |-> sd1[k \div C] + sd2[k % C]]

\* centroid_pairs[k]: row k of np.indices((C, C)).reshape(2, -1).T
CentroidPair(k) == <<k \div C, k % C>>

FlatIndex(pair) == pair[1] * C + pair[2]

KeepCountNoMinusOne(pf, n) == Min(pf, n)

\* keep_count = min(pruning_factor, len(cluster_pairs)) - 1
KeepCount(pf, n) == Min(pf, n) - 1

(***************************************************************************)
(* The index files restructure_pickle writes and search reads.             *)
(***************************************************************************)

\* The ids assigned to flat key k, ascending (add appends ids in ascending order).
RECURSIVE AscendingSeq(_)
AscendingSeq(S) ==
  IF S = {} THEN <<>>
  ELSE LET m == CHOOSE x \in S : \A y \in S : x <= y
       IN <<m>> \o AscendingSeq(S \ {m})

\* Lines 250-258: entries is data["index_inverted_lists"].items() in dict order,
\* a sequence of <<key, list>>.  The result is <<index_offsets, concatenated_values>>.
OffsetRecordAfterExtend(values, value) == <<Len(values) + Len(value), Len(value)>>

\* Lines 254-255 and 258: start and length are taken before the extend.
OffsetRecord(values, value) == <<Len(values), Len(value)>>

RECURSIVE RestructureFrom(_, _, _)
RestructureFrom(entries, offsets, values) ==
  IF entries = <<>> THEN <<offsets, values>>
  ELSE LET key == Head(entries)[1]
           value == Head(entries)[2]
           index == key[1] * C + key[2]
       IN RestructureFrom(Tail(entries),
                          [offsets EXCEPT ![index] = OffsetRecord(values, value)],
                          values \o value)

Restructure(entries) == RestructureFrom(entries, [k \in FlatKeys |-> <<0, 0>>], <<>>)

\* Lines 289-299: the list load_index_inverted_lists returns for one key.
LoadInvertedList(offsets, values, key) ==
  LET index == key[1] * C + key[2]
      start == offsets[index][1]
      length == offsets[index][2]
  IN IF length > 0 THEN SubSeq(values, start + 1, start + length) ELSE <<>>

\* The dict train and add leave for the assignment a (id -> flat key), as items().
EntriesOf(a) ==
  [p \in 1 .. C * C |-> <<CentroidPair(p - 1), AscendingSeq({v \in Ids : a[v] = p - 1})>>]

(***************************************************************************)
(* Batching and scoring helpers.                                           *)
(***************************************************************************)

SearchSortedLeft(numbers, v) == Cardinality({p \in 1 .. Len(numbers) : numbers[p] < v})

\* np.searchsorted(numbers, v, side='right') on a sorted array.
SearchSortedRight(numbers, v) == Cardinality({p \in 1 .. Len(numbers) : numbers[p] <= v})

\* Lines 90-94: end_index of the batch that starts at start_index (0-based).
BatchEnd(numbers, start_index, max_diff) ==
  Min(SearchSortedRight(numbers, numbers[start_index + 1] + max_diff), Len(numbers))

BatchGoesOnIgnoringLimit(start_index, batch_count, n, limit) == start_index < n

\* Line 89: the generator's loop condition.
BatchGoesOn(start_index, batch_count, n, limit) == start_index < n /\ batch_count < limit

\* Lines 113-117: what process_batch may return for a batch whose distances are
\* dist (by position): everything in batch order when there are at most k rows,
\* else some k rows of smallest distance, ascending.
ProcessBatchResults(batch, dist, k) ==
  LET n == Len(batch)
  IN IF n <= k
     THEN {[p \in 1 .. n |-> <<dist[p], batch[p]>>]}
     ELSE UNION { {[p \in 1 .. k |-> <<dist[s[p]], batch[s[p]]>>] : s \in ArgSortSeqs(dist, S)} :
                  S \in ArgPartitionFront(dist, 1 .. n, k) }

\* The first position of smallest distance.
MinPos(s) ==
  CHOOSE p \in 1 .. Len(s) :
    /\ \A q \in 1 .. Len(s) : s[p][1] <= s[q][1]
    /\ \A q \in 1 .. (p - 1) : s[q][1] > s[p][1]

RemoveAt(s, p) == SubSeq(s, 1, p - 1) \o SubSeq(s, p + 1, Len(s))

\* ndarray.sort() on an int array: ascending, duplicates kept.
RECURSIVE SortInts(_)
SortInts(s) ==
  IF s = <<>> THEN <<>>
  ELSE LET p == CHOOSE p \in 1 .. Len(s) : \A q \in 1 .. Len(s) : s[p] <= s[q]
       IN <<s[p]>> \o SortInts(RemoveAt(s, p))

\* heapq.nsmallest(k, s, key=lambda x: x[0]) = sorted(s, key=...)[:k]: a stable
\* sort, so equal distances keep their order in s.
RECURSIVE NSmallest(_, _)
NSmallest(k, s) ==
  IF k = 0 \/ s = <<>> THEN <<>>
  ELSE <<s[MinPos(s)]>> \o NSmallest(k - 1, RemoveAt(s, MinPos(s)))

RECURSIVE Flatten(_)
Flatten(ss) == IF ss = <<>> THEN <<>> ELSE Head(ss) \o Flatten(Tail(ss))

Range(s) == {s[p] : p \in DOMAIN s}

\* ThreadPoolExecutor(max_workers=2)
MaxWorkers == 2
Workers == 1 .. MaxWorkers

VARIABLES
  centroids,              \* self.centroids1/2: "None" or "trained"
  assignments1, assignments2, \* the nearest centroid of every vector, per subspace
  index_inverted_lists,   \* the dict, as its items() in insertion order
  pickle_file,            \* the file at index_path: <<>> or <<centroids, items>>
  disk_ready,             \* the files under DBIndexes exist
  index_files,            \* <<index_offsets, concatenated_values>> once written
  calls                   \* the method called last on the handle

hvars == <<centroids, assignments1, assignments2, index_inverted_lists, pickle_file,
           disk_ready, index_files, calls>>

VARIABLES
  pc,                     \* "idle", or where the search call stands
  error,                  \* the exception raised, or "none"
  top_k, nprobe, max_difference, batch_limit, pruning_factor,
  combined_distances_flat,
  cluster_pairs,          \* the planner's output
  rep_distances,
  pruned_cluster_pairs,   \* the pruner's output
  candidate_vectors,      \* sorted candidate ids
  start_index, batch_count, \* the batch generator's position
  futures,                \* submitted batches, in submission order
  running,                \* the future each worker thread runs, or 0
  yielded,                \* futures as_completed has handed over
  distances,              \* the distance of every id scored so far
  all_candidates,
  top_k_global            \* the result

params == <<top_k, nprobe, max_difference, batch_limit, pruning_factor>>
planvars == <<combined_distances_flat, cluster_pairs, rep_distances, pruned_cluster_pairs>>
batchvars == <<start_index, batch_count, futures, running, yielded, distances,
               all_candidates, top_k_global>>
svars == <<pc, error, params, planvars, candidate_vectors, batchvars>>

vars == <<hvars, svars>>

(***************************************************************************)
(* The index handle, lines 22-81 and 203-277.  The nearest centroids of    *)
(* the vectors (argmin over cdist, line 73) are fixed by the vectors and   *)
(* the seeded KMeans: they are inputs, drawn once.                         *)
(***************************************************************************)

\* batch_size = 500_000 of add, scaled.
AddBatchSize == 2
\* add is called at most MaxAdds times without a train in between.
MaxAdds == 2

HasKey(entries, key) == \E p \in 1 .. Len(entries) : entries[p][1] = key

KeyPos(entries, key) == CHOOSE p \in 1 .. Len(entries) : entries[p][1] = key

\* d[key] = value on a dict: in place for a key it has, else at the end.
SetItem(entries, key, value) ==
  IF HasKey(entries, key)
  THEN [entries EXCEPT ![KeyPos(entries, key)] = <<key, value>>]
  ELSE Append(entries, <<key, value>>)

\* Lines 51-53: an empty list for every (i, j), i the outer loop.
RECURSIVE TrainFrom(_, _)
TrainFrom(entries, k) ==
  IF k >= C * C THEN entries
  ELSE TrainFrom(SetItem(entries, CentroidPair(k), <<>>), k + 1)

EnumeratedIdFromZero(start_idx, j) == j

\* Line 77: enumerate(..., start=start_idx) numbers the batch's rows.
EnumeratedId(start_idx, j) == start_idx + j

\* Lines 77-78: the rows j, j + 1, ... of the batch that starts at start_idx.
RECURSIVE AppendRows(_, _, _, _, _, _)
AppendRows(entries, a1, a2, start_idx, end_idx, j) ==
  IF start_idx + j >= end_idx THEN entries
  ELSE LET key == <<a1[start_idx + j], a2[start_idx + j]>>
           p == KeyPos(entries, key)
           i == EnumeratedId(start_idx, j)
       IN AppendRows([entries EXCEPT ![p][2] = Append(entries[p][2], i)],
                     a1, a2, start_idx, end_idx, j + 1)

\* Lines 65-78: the batches start at 0, batch_size, 2 * batch_size, ...
RECURSIVE AddFrom(_, _, _, _)
AddFrom(entries, a1, a2, start_idx) ==
  IF start_idx >= NumVectors THEN entries
  ELSE LET end_idx == Min(start_idx + AddBatchSize, NumVectors)
       IN AddFrom(AppendRows(entries, a1, a2, start_idx, end_idx, 0),
                  a1, a2, start_idx + AddBatchSize)

RECURSIVE TotalLength(_)
TotalLength(entries) ==
  IF entries = <<>> THEN 0 ELSE Len(Head(entries)[2]) + TotalLength(Tail(entries))

HandleIdle == pc = "idle" /\ error = "none"

\* Lines 23-32: a new handle over the same vectors and paths.
NewHandle ==
  /\ HandleIdle
  /\ centroids' = "None"
  /\ index_inverted_lists' = <<>>
  /\ calls' = "__init__"
  /\ UNCHANGED <<assignments1, assignments2, pickle_file, disk_ready, index_files, svars>>

\* Lines 34-55.
train ==
  /\ HandleIdle
  /\ centroids' = "trained"
  /\ index_inverted_lists' = TrainFrom(index_inverted_lists, 0)
  /\ calls' = "train"
  /\ UNCHANGED <<assignments1, assignments2, pickle_file, disk_ready, index_files, svars>>

\* Lines 57-81.  cdist raises on centroids that are None.
add ==
  /\ HandleIdle
  /\ TotalLength(index_inverted_lists) < MaxAdds * NumVectors
  /\ calls' = "add"
  /\ IF centroids = "None"
     THEN /\ pc' = "raised"
          /\ error' = "ValueError"
          /\ UNCHANGED index_inverted_lists
     ELSE /\ index_inverted_lists' =
               AddFrom(index_inverted_lists, assignments1, assignments2, 0)
          /\ UNCHANGED <<pc, error>>
  /\ UNCHANGED <<centroids, assignments1, assignments2, pickle_file, disk_ready,
                 index_files, params, planvars, candidate_vectors, batchvars>>

\* Lines 203-214, for a handle that was given an index_path: both paths return
\* before train, add and save_index.
build_index ==
  /\ HandleIdle
  /\ calls' = "build_index"
  /\ UNCHANGED <<centroids, assignments1, assignments2, index_inverted_lists,
                 pickle_file, disk_ready, index_files, svars>>

\* Lines 216-225.
save_index ==
  /\ HandleIdle
  /\ pickle_file' = <<centroids, index_inverted_lists>>
  /\ calls' = "save_index"
  /\ UNCHANGED <<centroids, assignments1, assignments2, index_inverted_lists,
                 disk_ready, index_files, svars>>

\* Lines 227-235.
load_index ==
  /\ HandleIdle
  /\ calls' = "load_index"
  /\ IF pickle_file = <<>>
     THEN /\ pc' = "raised"
          /\ error' = "FileNotFoundError"
          /\ UNCHANGED <<centroids, index_inverted_lists>>
     ELSE /\ centroids' = pickle_file[1]
          /\ index_inverted_lists' = pickle_file[2]
          /\ UNCHANGED <<pc, error>>
  /\ UNCHANGED <<assignments1, assignments2, pickle_file, disk_ready, index_files,
                 params, planvars, candidate_vectors, batchvars>>

\* Lines 237-269: a static method, run on the saved pickle.
restructure_pickle ==
  /\ HandleIdle
  /\ calls' = "restructure_pickle"
  /\ IF pickle_file = <<>>
     THEN /\ pc' = "raised"
          /\ error' = "FileNotFoundError"
          /\ UNCHANGED <<disk_ready, index_files>>
     ELSE /\ disk_ready' = TRUE
          /\ index_files' = Restructure(pickle_file[2])
          /\ UNCHANGED <<pc, error>>
  /\ UNCHANGED <<centroids, assignments1, assignments2, index_inverted_lists,
                 pickle_file, params, planvars, candidate_vectors, batchvars>>

(***************************************************************************)
(* search, lines 83-200.                                                   *)
(***************************************************************************)

SearchIdle ==
  /\ error = "none"
  /\ combined_distances_flat = <<>>
  /\ cluster_pairs = <<>>
  /\ rep_distances = <<>>
  /\ pruned_cluster_pairs = <<>>
  /\ start_index = 0
  /\ batch_count = 0
  /\ futures = <<>>
  /\ running = [w \in Workers |-> 0]
  /\ yielded = {}
  /\ distances = <<>>
  /\ all_candidates = <<>>
  /\ top_k_global = <<>>

\* Lines 119-131: the entry of search up to load_centroids, which opens the
\* centroid file under DBIndexes; the handle's own fields are not read.
SearchEntry ==
  /\ HandleIdle
  /\ calls' = "search"
  /\ IF disk_ready
     THEN pc' = "plan" /\ UNCHANGED error
     ELSE pc' = "raised" /\ error' = "FileNotFoundError"
  /\ UNCHANGED <<centroids, assignments1, assignments2, index_inverted_lists,
                 pickle_file, disk_ready, index_files, params, planvars,
                 candidate_vectors, batchvars>>

\* Lines 133-141: the two subspace distance rows and their outer sum.
SubspaceDistances ==
  /\ pc = "plan"
  /\ \E sd1 \in [Centroids -> DistVals], sd2 \in [Centroids -> DistVals] :
       combined_distances_flat' = CombinedFlat(sd1, sd2)
  /\ pc' = "select"
  /\ UNCHANGED <<hvars, error, params, cluster_pairs, rep_distances,
                 pruned_cluster_pairs, candidate_vectors, batchvars>>

\* Lines 144-149: the nprobe * nprobe best centroid pairs.  np.argpartition
\* raises ValueError when kth is not below the array's length.  The distance
\* grid is not read after line 146.
SelectPairs ==
  /\ pc = "select"
  /\ LET kth == nprobe * nprobe
     IN IF KthOutOfBounds(kth, C * C)
        THEN /\ pc' = "raised"
             /\ error' = "ValueError"
             /\ UNCHANGED cluster_pairs
        ELSE \E S \in ArgPartitionFront(combined_distances_flat, FlatKeys, kth) :
             \E top_indices \in ArgSortSeqs(combined_distances_flat, S) :
               /\ cluster_pairs' = [p \in 1 .. kth |-> CentroidPair(top_indices[p])]
               /\ pc' = "represent"
               /\ UNCHANGED error
  /\ combined_distances_flat' = <<>>
  /\ UNCHANGED <<hvars, params, rep_distances, pruned_cluster_pairs,
                 candidate_vectors, batchvars>>

\* Lines 154-163: the distance of the query to each pair's representative.
RepresentativeDistances ==
  /\ pc = "represent"
  /\ rep_distances' \in [1 .. Len(cluster_pairs) -> DistVals]
  /\ pc' = "prune"
  /\ UNCHANGED <<hvars, error, params, combined_distances_flat, cluster_pairs,
                 pruned_cluster_pairs, candidate_vectors, batchvars>>

\* Lines 165-170: keep the keep_count pairs of smallest representative
\* distance.  cluster_pairs and rep_distances are not read after line 170.
PrunePairs ==
  /\ pc = "prune"
  /\ LET n == Len(cluster_pairs)
         keep_count == KeepCount(pruning_factor, n)
     IN IF KthOutOfBounds(keep_count, n)
        THEN /\ pc' = "raised"
             /\ error' = "ValueError"
             /\ UNCHANGED pruned_cluster_pairs
        ELSE \E S \in ArgPartitionFront(rep_distances, 1 .. n, keep_count) :
             \E kept_indices \in ArgSortSeqs(rep_distances, S) :
               /\ pruned_cluster_pairs' =
                    [p \in 1 .. keep_count |-> cluster_pairs[kept_indices[p]]]
               /\ pc' = "gather"
               /\ UNCHANGED error
  /\ cluster_pairs' = <<>>
  /\ rep_distances' = <<>>
  /\ UNCHANGED <<hvars, params, combined_distances_flat, candidate_vectors, batchvars>>

\* The flat keys whose lists line 174 reads, and one key more that stands for
\* every list it does not read.
ReadKeys(pairs) ==
  LET read == {FlatIndex(pairs[p]) : p \in 1 .. Len(pairs)}
  IN IF read = FlatKeys THEN read
     ELSE read \cup {CHOOSE k \in FlatKeys : k \notin read}

\* Lines 173-185: read the kept pairs' inverted lists from the index files,
\* concatenate and sort.  The files hold what restructure_pickle wrote for some
\* assignment of the N ids to centroid pairs.
GatherCandidates ==
  /\ pc = "gather"
  /\ \E a \in [Ids -> ReadKeys(pruned_cluster_pairs)] :
     \E files \in {Restructure(EntriesOf(a))} :
       LET lists == [p \in 1 .. Len(pruned_cluster_pairs) |->
                       LoadInvertedList(files[1], files[2], pruned_cluster_pairs[p])]
       IN candidate_vectors' = SortInts(Flatten(lists))
  /\ pruned_cluster_pairs' = <<>>
  /\ pc' = "batch"
  /\ UNCHANGED <<hvars, error, params, combined_distances_flat, cluster_pairs,
                 rep_distances, batchvars>>

\* Lines 85-98 and 191: the dict comprehension draws the next batch from the
\* generator and submits it; when the generator ends the main thread goes on to
\* as_completed.
SubmitBatch ==
  /\ pc = "batch"
  /\ IF BatchGoesOn(start_index, batch_count, Len(candidate_vectors), batch_limit)
     THEN LET end_index == BatchEnd(candidate_vectors, start_index, max_difference)
          IN /\ futures' = Append(futures,
                                  [first |-> start_index,
                                   batch |-> SubSeq(candidate_vectors, start_index + 1, end_index),
                                   state |-> "queued",
                                   result |-> <<>>])
             /\ batch_count' = batch_count + 1
             /\ start_index' = end_index
             /\ UNCHANGED pc
     ELSE /\ pc' = "collect"
          /\ UNCHANGED <<futures, batch_count, start_index>>
  /\ UNCHANGED <<hvars, error, params, planvars, candidate_vectors, running,
                 yielded, distances, all_candidates, top_k_global>>

\* An idle worker thread takes the oldest queued work item.
WorkerTake(w) ==
  /\ running[w] = 0
  /\ \E f \in 1 .. Len(futures) :
       /\ futures[f].state = "queued"
       /\ \A g \in 1 .. (f - 1) : futures[g].state # "queued"
       /\ futures' = [futures EXCEPT ![f].state = "running"]
       /\ running' = [running EXCEPT ![w] = f]
  /\ UNCHANGED <<hvars, pc, error, params, planvars, candidate_vectors,
                 start_index, batch_count, yielded, distances, all_candidates,
                 top_k_global>>

RelevantIndicesAbsolute(batch) == batch

\* Line 105: relevant_indices = batch - start_index, with start_index = batch[0].
RelevantIndices(batch) == [k \in 1 .. Len(batch) |-> batch[k] - batch[1]]

\* Lines 101-103: the rows of the block read [batch[0], batch[-1] + 1).
BlockRows(batch) == (batch[Len(batch)] + 1) - batch[1]

\* Line 106: block_data[relevant_indices] stays inside the block that was read.
GatherInsideBlock(batch) ==
  /\ batch # <<>>
  /\ \A k \in 1 .. Len(batch) :
       0 <= RelevantIndices(batch)[k] /\ RelevantIndices(batch)[k] < BlockRows(batch)

\* Lines 100-117: process_batch returns.  Equal ids are the same row and have
\* the same distance.
WorkerFinish(w) ==
  /\ running[w] # 0
  /\ GatherInsideBlock(futures[running[w]].batch)
  /\ LET f == running[w]
         batch == futures[f].batch
     IN \E dist \in [1 .. Len(batch) -> DistVals] :
        \E res \in ProcessBatchResults(batch, dist, top_k) :
          /\ \A p, q \in 1 .. Len(batch) : batch[p] = batch[q] => dist[p] = dist[q]
          /\ futures' = [futures EXCEPT ![f].state = "done", ![f].result = res]
          /\ distances' = distances @@ [id \in Range(batch) |->
                             dist[CHOOSE p \in 1 .. Len(batch) : batch[p] = id]]
  /\ running' = [running EXCEPT ![w] = 0]
  /\ UNCHANGED <<hvars, pc, error, params, planvars, candidate_vectors,
                 start_index, batch_count, yielded, all_candidates, top_k_global>>

\* Lines 100-103: the block read of process_batch fails.
WorkerFail(w) ==
  /\ running[w] # 0
  /\ futures' = [futures EXCEPT ![running[w]].state = "failed"]
  /\ running' = [running EXCEPT ![w] = 0]
  /\ UNCHANGED <<hvars, pc, error, params, planvars, candidate_vectors,
                 start_index, batch_count, yielded, distances, all_candidates,
                 top_k_global>>

ResultNeverRaises(future) == FALSE

\* Line 193: future.result() raises what process_batch raised in the worker.
ResultRaises(future) == future.state = "failed"

\* Lines 192-194: as_completed hands over some finished future; future.result()
\* returns its list, or raises what process_batch raised.
CollectFuture ==
  /\ pc = "collect"
  /\ \E f \in 1 .. Len(futures) :
       /\ f \notin yielded
       /\ futures[f].state \in {"done", "failed"}
       /\ yielded' = yielded \cup {f}
       /\ IF ResultRaises(futures[f])
          THEN /\ pc' = "raised"
               /\ error' = "IOError"
               /\ UNCHANGED all_candidates
          ELSE /\ all_candidates' = all_candidates \o futures[f].result
               /\ UNCHANGED <<pc, error>>
  /\ UNCHANGED <<hvars, params, planvars, candidate_vectors, start_index,
                 batch_count, futures, running, distances, top_k_global>>

\* Lines 196-200: the global merge, once every future was handed over.
GlobalMerge ==
  /\ pc = "collect"
  /\ yielded = 1 .. Len(futures)
  /\ top_k_global' = NSmallest(top_k, all_candidates)
  /\ pc' = "done"
  /\ UNCHANGED <<hvars, error, params, planvars, candidate_vectors, start_index,
                 batch_count, futures, running, yielded, distances, all_candidates>>

\* A handle as __init__ leaves it, in a process that finds the index files of
\* an earlier build under DBIndexes.  Their content is read once, at line 174,
\* and is drawn there.
FreshHandle ==
  /\ centroids = "None"
  /\ assignments1 = [v \in Ids |-> 0]
  /\ assignments2 = [v \in Ids |-> 0]
  /\ index_inverted_lists = <<>>
  /\ pickle_file = <<>>
  /\ index_files = <<>>
  /\ calls = "__init__"

NextPlan == SearchEntry \/ SubspaceDistances \/ SelectPairs \/ RepresentativeDistances \/ PrunePairs

NextBatch ==
  \/ SubmitBatch
  \/ \E w \in Workers : WorkerTake(w)
  \/ \E w \in Workers : WorkerFinish(w)
  \/ \E w \in Workers : WorkerFail(w)
  \/ CollectFuture
  \/ GlobalMerge

NextSearch == NextPlan \/ GatherCandidates \/ NextBatch

PruningFactors == (1 .. MaxPruning) \cup {C * C}
MaxDifferences == (0 .. MaxDifference) \cup {NumVectors}
BatchLimits == (1 .. MaxBatchLimit) \cup {NumVectors}

\* search called with any nprobe and pruning_factor; the planner and the pruner.
InitPlan ==
  /\ pc = "idle"
  /\ FreshHandle
  /\ disk_ready = TRUE
  /\ top_k = 1
  /\ nprobe \in 1 .. C
  /\ max_difference = NumVectors
  /\ batch_limit = NumVectors
  /\ pruning_factor \in PruningFactors
  /\ candidate_vectors = <<>>
  /\ SearchIdle

SpecPlan == InitPlan /\ [][NextSearch]_vars

\* The state at line 187, for any sorted array of distinct candidate ids.
InitBatch ==
  /\ pc = "batch"
  /\ FreshHandle
  /\ disk_ready = TRUE
  /\ top_k \in 1 .. MaxTopK
  /\ nprobe = C - 1
  /\ max_difference \in MaxDifferences
  /\ batch_limit \in BatchLimits
  /\ pruning_factor = C * C
  /\ SearchIdle
  /\ \E S \in SUBSET Ids : candidate_vectors = AscendingSeq(S)

SpecBatch == InitBatch /\ [][NextBatch]_vars

\* search from its entry to its result.
InitSearch ==
  /\ pc = "idle"
  /\ FreshHandle
  /\ disk_ready = TRUE
  /\ top_k \in 1 .. MaxTopK
  /\ nprobe \in 1 .. C
  /\ max_difference = NumVectors
  /\ batch_limit = NumVectors
  /\ pruning_factor \in PruningFactors
  /\ candidate_vectors = <<>>
  /\ SearchIdle

Spec == InitSearch /\ [][NextSearch]_vars

\* The handle's methods called in any order, on a store whose vectors have any
\* nearest centroids; nothing is on disk yet.
InitBuild ==
  /\ centroids = "None"
  /\ assignments1 \in [Ids -> Centroids]
  /\ assignments2 \in [Ids -> Centroids]
  /\ index_inverted_lists = <<>>
  /\ pickle_file = <<>>
  /\ disk_ready = FALSE
  /\ index_files = <<>>
  /\ calls = "__init__"
  /\ pc = "idle"
  /\ top_k = 1
  /\ nprobe = 1
  /\ max_difference = NumVectors
  /\ batch_limit = NumVectors
  /\ pruning_factor = C * C
  /\ candidate_vectors = <<>>
  /\ SearchIdle

NextBuild ==
  \/ NewHandle
  \/ train
  \/ add
  \/ build_index
  \/ save_index
  \/ load_index
  \/ restructure_pickle
  \/ SearchEntry

SpecBuild == InitBuild /\ [][NextBuild]_vars

(***************************************************************************)
(* Properties.                                                             *)
(***************************************************************************)

Positions(entries, id) ==
  {pq \in (1 .. Len(entries)) \X (1 .. MaxAdds * NumVectors) :
     pq[2] <= Len(entries[pq[1]][2]) /\ entries[pq[1]][2][pq[2]] = id}

\* The dict has the C * C keys, and every id of 0 .. N - 1, and nothing else,
\* stands in its lists exactly once.
EveryIdOnce(entries) ==
  /\ Len(entries) = C * C
  /\ {entries[p][1] : p \in 1 .. Len(entries)} = Centroids \X Centroids
  /\ \A p \in 1 .. Len(entries) : Range(entries[p][2]) \subseteq Ids
  /\ \A id \in Ids : Cardinality(Positions(entries, id)) = 1

\* C1: after train() followed by add(), every VectorId of 0 .. N - 1 stands in
\* exactly one inverted list: the lists of the C * C pairs are disjoint and
\* their union is 0 .. N - 1, also when N exceeds add's batch size.
C1_EveryIdInExactlyOneList ==
  [][(calls = "train" /\ calls' = "add") => EveryIdOnce(index_inverted_lists')]_vars

C1_Witness ==
  /\ calls = "add"
  /\ error = "none"
  /\ NumVectors > AddBatchSize
  /\ EveryIdOnce(index_inverted_lists)
  /\ \E p \in 1 .. Len(index_inverted_lists) : Len(index_inverted_lists[p][2]) >= 2

SelectedKeys(pairs) == {FlatIndex(pairs[p]) : p \in 1 .. Len(pairs)}

\* C2: for every nprobe in 1 .. C the planner returns exactly nprobe * nprobe
\* pairs, they are the pairs of smallest D[i, j], in ascending order of D, and
\* pairs of equal D are in ascending order of their flat index i * C + j.
C2_PlannerBestPairs ==
  [][pc = "select" =>
       /\ pc' = "represent"
       /\ Len(cluster_pairs') = nprobe * nprobe
       /\ \A k \in SelectedKeys(cluster_pairs') : \A m \in FlatKeys \ SelectedKeys(cluster_pairs') :
            combined_distances_flat[k] <= combined_distances_flat[m]
       /\ \A p, q \in 1 .. Len(cluster_pairs') :
            p < q =>
              LET kp == FlatIndex(cluster_pairs'[p])
                  kq == FlatIndex(cluster_pairs'[q])
              IN \/ combined_distances_flat[kp] < combined_distances_flat[kq]
                 \/ combined_distances_flat[kp] = combined_distances_flat[kq] /\ kp < kq
    ]_vars

\* C3: with nprobe = 1 the planner yields exactly one pair and, for every
\* pruning_factor >= 1, that pair survives the pruner (so it is gathered).
C3_SingleProbePairSurvives ==
  nprobe = 1 =>
    /\ pc \in {"represent", "prune"} => Len(cluster_pairs) = 1
    /\ pc = "gather" => Len(pruned_cluster_pairs) = 1

RepOf(pair) == rep_distances[CHOOSE p \in 1 .. Len(cluster_pairs) : cluster_pairs[p] = pair]

\* The pruner's step keeps `count` of the planner's pairs: distinct ones, of
\* smallest representative distance, in ascending order of it.
PrunerKeeps(count) ==
  /\ pc' = "gather"
  /\ Len(pruned_cluster_pairs') = count
  /\ Range(pruned_cluster_pairs') \subseteq Range(cluster_pairs)
  /\ Cardinality(Range(pruned_cluster_pairs')) = count
  /\ \A x \in Range(pruned_cluster_pairs') :
       \A y \in Range(cluster_pairs) \ Range(pruned_cluster_pairs') : RepOf(x) <= RepOf(y)
  /\ \A p, q \in 1 .. Len(pruned_cluster_pairs') :
       p < q => RepOf(pruned_cluster_pairs'[p]) <= RepOf(pruned_cluster_pairs'[q])

WindowStart(f) == candidate_vectors[futures[f].first + 1]
BatchStop(f) == futures[f].first + Len(futures[f].batch)

IsSlice(f) ==
  /\ Len(futures[f].batch) >= 1
  /\ futures[f].batch = SubSeq(candidate_vectors, futures[f].first + 1, BatchStop(f))

\* C5 as stated: each batch is the maximal run of the remaining ids in the
\* half-open interval [S[start], S[start] + max_difference).
C5_BatchIsHalfOpenWindow ==
  \A f \in 1 .. Len(futures) :
    /\ IsSlice(f)
    /\ \A x \in Range(futures[f].batch) : x < WindowStart(f) + max_difference
    /\ BatchStop(f) < Len(candidate_vectors) =>
         candidate_vectors[BatchStop(f) + 1] >= WindowStart(f) + max_difference

\* C5, amended: each batch is the maximal run of the remaining ids in the
\* closed interval [S[start], S[start] + max_difference]: every id of the batch
\* is <= S[start] + max_difference and the first id left out, if any, is above.
C5_BatchIsClosedWindow ==
  \A f \in 1 .. Len(futures) :
    /\ IsSlice(f)
    /\ \A x \in Range(futures[f].batch) : x <= WindowStart(f) + max_difference
    /\ BatchStop(f) < Len(candidate_vectors) =>
         candidate_vectors[BatchStop(f) + 1] > WindowStart(f) + max_difference

C5_Witness ==
  \E f \in 1 .. Len(futures) :
    /\ max_difference >= 1
    /\ WindowStart(f) + max_difference \in Range(futures[f].batch)
    /\ BatchStop(f) < Len(candidate_vectors)

ResultIds(s) == {s[p][2] : p \in 1 .. Len(s)}

\* The ids of S after the batches emitted so far.
Tail_ids == {candidate_vectors[p] : p \in (start_index + 1) .. Len(candidate_vectors)}

\* C6: at most batch_limit batches are emitted; they are consecutive,
\* non-overlapping slices that together are a prefix of S; no id of S after
\* that prefix is scored or returned; with batch_limit = 1 only ids of the
\* first window are returned.
C6_BatchLimitCapsPrefix ==
  /\ Len(futures) <= batch_limit
  /\ \A f \in 1 .. Len(futures) :
       /\ IsSlice(f)
       /\ futures[f].first = (IF f = 1 THEN 0 ELSE BatchStop(f - 1))
  /\ Flatten([f \in 1 .. Len(futures) |-> futures[f].batch])
       = SubSeq(candidate_vectors, 1, start_index)
  /\ Tail_ids \cap (DOMAIN distances) = {}
  /\ Tail_ids \cap ResultIds(all_candidates) = {}
  /\ Tail_ids \cap ResultIds(top_k_global) = {}
  /\ batch_limit = 1 =>
       \A x \in ResultIds(top_k_global) :
         candidate_vectors[1] <= x /\ x <= candidate_vectors[1] + max_difference

C6_Witness ==
  /\ pc = "done"
  /\ Len(futures) = batch_limit
  /\ Tail_ids # {}
  /\ top_k_global # <<>>

\* The scored candidates in ascending order of (distance, id).
RECURSIVE ByDistanceThenId(_)
ByDistanceThenId(S) ==
  IF S = {} THEN <<>>
  ELSE LET m == CHOOSE x \in S :
                  \A y \in S : x[1] < y[1] \/ (x[1] = y[1] /\ x[2] <= y[2])
       IN <<m>> \o ByDistanceThenId(S \ {m})

Scored == {<<distances[id], id>> : id \in DOMAIN distances}

\* C7: the merge returns the K pairs of globally smallest distance among all
\* candidates scored in the emitted batches, in ascending order of distance,
\* equal distances ordered and selected by smaller id.
C7_MergeIsGlobalTopK ==
  pc = "done" =>
    top_k_global = SubSeq(ByDistanceThenId(Scored), 1, Min(top_k, Cardinality(Scored)))

\* C8: the result does not depend on the order in which the futures complete
\* and are appended to all_candidates: it is the merge of the batch outputs
\* taken in submission order.
C8_ResultIgnoresCompletionOrder ==
  pc = "done" =>
    top_k_global = NSmallest(top_k, Flatten([f \in 1 .. Len(futures) |-> futures[f].result]))

\* C9: with nprobe = C, pruning_factor = C * C, max_difference = N and no
\* batch cap, search completes without error, scores every id of 0 .. N - 1
\* and returns a top-K of exact search over the whole store.
C9_BruteForceSetting ==
  (/\ nprobe = C
   /\ pruning_factor = C * C
   /\ max_difference = NumVectors
   /\ batch_limit = NumVectors
   /\ pc \in {"done", "raised"}
   /\ error # "IOError")
  => /\ pc = "done"
     /\ DOMAIN distances = Ids
     /\ Len(top_k_global) = Min(top_k, NumVectors)
     /\ Cardinality(ResultIds(top_k_global)) = Len(top_k_global)
     /\ \A p \in 1 .. Len(top_k_global) :
          /\ top_k_global[p][2] \in Ids
          /\ top_k_global[p][1] = distances[top_k_global[p][2]]
          /\ \A q \in 1 .. Len(top_k_global) : p < q => top_k_global[p][1] <= top_k_global[q][1]
          /\ \A id \in Ids \ ResultIds(top_k_global) : top_k_global[p][1] <= distances[id]

\* The handle holds trained centroids and populated lists (it was populated
\* by add or loaded from a populated index).
PopulatedOrLoaded == centroids = "trained" /\ TotalLength(index_inverted_lists) > 0

\* C10: build_index on a fresh handle trains, adds and saves, and search is
\* permitted only on a populated or loaded handle: on any other handle it
\* fails with IndexNotReady.
C10_LifecycleGuardsSearch ==
  [][/\ (calls = "__init__" /\ calls' = "build_index") =>
          /\ centroids' = "trained"
          /\ EveryIdOnce(index_inverted_lists')
          /\ pickle_file' # <<>>
     /\ (calls' = "search" /\ pc = "idle" /\ ~PopulatedOrLoaded) =>
          /\ pc' = "raised"
          /\ error' = "IndexNotReady"
    ]_vars

(***************************************************************************)
(* restructure_pickle on any pickle: a static method, lines 237-269.       *)
(***************************************************************************)

\* The pickled dict has at most MaxKeys keys.
MaxKeys == 2

\* The orders a dict of n keys can be iterated in.
KeyOrders(n) ==
  {ks \in [1 .. n -> FlatKeys] : \A p, q \in 1 .. n : p # q => ks[p] # ks[q]}

\* data["index_inverted_lists"].items(): the ids of 0 .. N - 1 spread over the
\* lists of some keys in some insertion order; the other pairs are absent.
MappingOf(ks, a) ==
  [p \in 1 .. Len(ks) |-> <<CentroidPair(ks[p]), AscendingSeq({v \in Ids : a[v] = p})>>]

\* A pickle of trained centroids and any mapping at pickle_path; no handle has
\* done anything yet.
InitRestructure ==
  /\ centroids = "None"
  /\ assignments1 = [v \in Ids |-> 0]
  /\ assignments2 = [v \in Ids |-> 0]
  /\ index_inverted_lists = <<>>
  /\ \E n \in 1 .. MaxKeys :
       \E ks \in KeyOrders(n) :
         \E a \in [Ids -> 1 .. n] : pickle_file = <<"trained", MappingOf(ks, a)>>
  /\ disk_ready = FALSE
  /\ index_files = <<>>
  /\ calls = "__init__"
  /\ pc = "idle"
  /\ top_k = 1
  /\ nprobe = 1
  /\ max_difference = NumVectors
  /\ batch_limit = NumVectors
  /\ pruning_factor = C * C
  /\ candidate_vectors = <<>>
  /\ SearchIdle

SpecRestructure == InitRestructure /\ [][restructure_pickle]_vars

RECURSIVE SumOfLengths(_, _)
SumOfLengths(offsets, k) ==
  IF k >= C * C THEN 0 ELSE offsets[k][2] + SumOfLengths(offsets, k + 1)

\* The list the pickled dict holds for flat key k, empty when the key is absent.
ListOf(entries, k) ==
  IF HasKey(entries, CentroidPair(k)) THEN entries[KeyPos(entries, CentroidPair(k))][2] ELSE <<>>

\* C11: in the offset table restructure_pickle writes, start[0] = 0,
\* start[k + 1] = start[k] + length[k] for consecutive flat keys k, the lengths
\* sum to N, and the id run file is the concatenation of the lists in (i, j)
\* order, whatever the iteration order of the keys and with pairs absent.
C11_OffsetsContiguousInKeyOrder ==
  disk_ready =>
    /\ index_files[1][0][1] = 0
    /\ \A k \in 0 .. (C * C - 2) :
         index_files[1][k + 1][1] = index_files[1][k][1] + index_files[1][k][2]
    /\ SumOfLengths(index_files[1], 0) = NumVectors
    /\ index_files[2] = Flatten([p \in 1 .. C * C |-> ListOf(pickle_file[2], p - 1)])

\* The total size of the lists iterated before position p.
RECURSIVE SizeBefore(_, _)
SizeBefore(entries, p) ==
  IF p <= 1 THEN 0 ELSE Len(entries[p - 1][2]) + SizeBefore(entries, p - 1)

KeysAscend(entries) ==
  \A p, q \in 1 .. Len(entries) : p < q => FlatIndex(entries[p][1]) < FlatIndex(entries[q][1])

\* C11, amended: the record of a key of the mapping is [start, length] with
\* length the size of its list and start the total size of the lists iterated
\* before it; an absent pair keeps [0, 0]; the lengths sum to N; the id run
\* file is the concatenation of the lists in iteration order and every list is
\* read back from its record.  When the keys are iterated in ascending flat-key
\* order, the records of consecutive present keys are contiguous from 0 and the
\* file is in (i, j) order.
C11_OffsetsContiguousInIterationOrder ==
  disk_ready =>
    LET entries == pickle_file[2]
        offsets == index_files[1]
        values == index_files[2]
    IN /\ \A p \in 1 .. Len(entries) :
            offsets[FlatIndex(entries[p][1])] = <<SizeBefore(entries, p), Len(entries[p][2])>>
       /\ \A k \in FlatKeys : ~HasKey(entries, CentroidPair(k)) => offsets[k] = <<0, 0>>
       /\ SumOfLengths(offsets, 0) = NumVectors
       /\ values = Flatten([p \in 1 .. Len(entries) |-> entries[p][2]])
       /\ \A k \in FlatKeys : LoadInvertedList(offsets, values, CentroidPair(k)) = ListOf(entries, k)
       /\ KeysAscend(entries) =>
            /\ offsets[FlatIndex(entries[1][1])][1] = 0
            /\ \A p \in 1 .. (Len(entries) - 1) :
                 offsets[FlatIndex(entries[p + 1][1])][1]
                   = offsets[FlatIndex(entries[p][1])][1] + offsets[FlatIndex(entries[p][1])][2]
            /\ values = Flatten([p \in 1 .. C * C |-> ListOf(entries, p - 1)])

C11_Witness ==
  /\ disk_ready
  /\ Len(pickle_file[2]) = 2
  /\ FlatIndex(pickle_file[2][1][1]) > FlatIndex(pickle_file[2][2][1])
  /\ pickle_file[2][1][2] # <<>>
  /\ pickle_file[2][2][2] # <<>>
  /\ index_files[1][FlatIndex(pickle_file[2][2][1])][1] > 0

\* Lines 197-200: the two arrays search returns.
top_k_distances == [p \in 1 .. Len(top_k_global) |-> top_k_global[p][1]]
top_k_indices == [p \in 1 .. Len(top_k_global) |-> top_k_global[p][2]]

\* C12: every search that returns, returns two parallel arrays of length
\* exactly top_k, the distances ascending and ids[k] the id whose distance is
\* distances[k].
C12_ResultHasTopKEntries ==
  pc = "done" =>
    /\ Len(top_k_distances) = top_k
    /\ Len(top_k_indices) = top_k
    /\ \A p \in 1 .. Len(top_k_indices) :
         /\ top_k_indices[p] \in DOMAIN distances
         /\ top_k_distances[p] = distances[top_k_indices[p]]
         /\ \A q \in 1 .. Len(top_k_indices) : p < q => top_k_distances[p] <= top_k_distances[q]

Failed == {f \in 1 .. Len(futures) : futures[f].state = "failed"}

\* C13: when the block read or the scoring of any batch fails, search fails
\* with that error and returns no result, however many other batches had
\* completed and in whichever order: a result is never assembled from the
\* batches that succeeded.
C13_FailedBatchFailsSearch ==
  /\ Failed # {} => (pc # "done" /\ top_k_global = <<>>)
  /\ Failed \cap yielded # {} => (pc = "raised" /\ error = "IOError")
  /\ pc = "raised" => top_k_global = <<>>

C13_Witness ==
  /\ pc = "raised"
  /\ error = "IOError"
  /\ Failed # {}
  /\ all_candidates # <<>>
  /\ \E f \in yielded : futures[f].state = "done"

(***************************************************************************)
(* The batch generator and process_batch on any sorted candidate array.    *)
(***************************************************************************)

\* The candidate array has at most MaxCandidates entries.
MaxCandidates == 3

\* The sorted arrays of ids, an id possibly several times (as when add ran
\* twice on one handle).
SortedArrays ==
  UNION {{c \in [1 .. n -> Ids] : \A p, q \in 1 .. n : p < q => c[p] <= c[q]} :
         n \in 0 .. MaxCandidates}

\* The state at line 187, for any sorted candidate array.
InitGen ==
  /\ pc = "batch"
  /\ FreshHandle
  /\ disk_ready = TRUE
  /\ top_k = 1
  /\ nprobe = C - 1
  /\ max_difference \in MaxDifferences
  /\ batch_limit \in BatchLimits
  /\ pruning_factor = C * C
  /\ SearchIdle
  /\ candidate_vectors \in SortedArrays

SpecGen == InitGen /\ [][NextBatch]_vars

\* C14: for every sorted candidate array and max_difference >= 0 the generator
\* terminates (every batch it emits moves start_index forward, within the
\* array), every batch is non-empty and ascending, and in process_batch every
\* gather position batch[k] - batch[0] lies in [0, batch[-1] - batch[0]], inside
\* the block read of batch[-1] - batch[0] + 1 rows.
C14_BatchesInsideBlockRead ==
  [][Len(futures') > Len(futures) =>
       LET batch == futures'[Len(futures')].batch
       IN /\ start_index < start_index'
          /\ start_index' <= Len(candidate_vectors)
          /\ Len(batch) >= 1
          /\ \A p, q \in 1 .. Len(batch) : p < q => batch[p] <= batch[q]
          /\ BlockRows(batch) = batch[Len(batch)] - batch[1] + 1
          /\ \A k \in 1 .. Len(batch) :
               /\ 0 <= RelevantIndices(batch)[k]
               /\ RelevantIndices(batch)[k] <= batch[Len(batch)] - batch[1]
               /\ batch[1] + RelevantIndices(batch)[k] = batch[k]
    ]_vars

C14_Witness ==
  /\ pc = "done"
  /\ Len(futures) >= 2
  /\ \E f \in 1 .. Len(futures) :
       /\ futures[f].state = "done"
       /\ Len(futures[f].batch) >= 2
       /\ futures[f].batch[Len(futures[f].batch)] > futures[f].batch[1]

=============================================================================
